---- MODULE Spec2Model ----
(***************************************************************************)
(* Model of scripts/ft-ergodox.py: the keycap classes and their keyword    *)
(* overrides, the command-line driver that fills COMMANDS, and the asyncio *)
(* runner (run_all_commands / run_command_on_loop / process_result) that   *)
(* executes COMMANDS under the semaphore SEM.                              *)
(*                                                                         *)
(* Floating point sizes are scaled by ten (4.5 is 45).  Strings that the   *)
(* code inspects character by character (keycap names) are sequences of    *)
(* one-character strings.                                                  *)
(***************************************************************************)
EXTENDS Integers, Sequences, FiniteSets, TLC

VARIABLES
    \* ---- keycap construction (class __init__ chain) ----
    cls,        \* class being instantiated
    given,      \* keyword overrides as passed by the caller (values)
    level,      \* how many __init__ bodies of the chain have run (0 = none)
    st,         \* object under construction: [self, kw, copy, heap, err]
    \* ---- __main__ ----
    args,       \* argparse namespace
    argv1,      \* len(sys.argv) == 1
    FS,         \* files that exist in args.out
    pc,         \* position of __main__
    ni, ki,     \* loop indices: for name in args.names / for keycap in KEYCAPS
    matched,    \* local of the named branch
    keycaps,    \* KEYCAPS, the (mutable) catalog objects
    COMMANDS,   \* the global command list
    stdout,     \* "exists; skipping..." / "Rendering ..." lines printed by __main__
    \* ---- asyncio runner ----
    SEM,        \* the global semaphore, or Undefined
    ready,      \* loop._ready: FIFO of handles
    ntodo,      \* handles left in the current _run_once pass
    stopping,   \* loop._stopping
    tpc,        \* state of each run_command_on_loop task
    mpc,        \* state of the run_all_commands task
    doneQ,      \* as_completed's queue of finished tasks
    consumed,   \* results taken by run_all_commands
    execCount,  \* how many times each command was run in the shell
    printed     \* how many times each command's output was printed

ctorVars == <<cls, given, level, st>>
mainVars == <<args, argv1, FS, pc, ni, ki, matched, keycaps, COMMANDS, stdout>>
runVars  == <<SEM, ready, ntodo, stopping, tpc, mpc, doneQ, consumed, execCount, printed>>
vars     == <<ctorVars, mainVars, runVars>>

-----------------------------------------------------------------------------
(* Bounds of the model *)

\* longest list passed as a font_sizes / fonts override
MaxListLen == 4
\* how many catalog entries the driver iterates over
NumKeycaps == 2
\* how many names are given on the command line at most
MaxNames == 2
\* largest --jobs value tried
MaxJobs == 2
\* the runner is started only for command lists up to this length
MaxRun == 3

-----------------------------------------------------------------------------
(* Strings *)

UPPER == <<"A","B","C","D","E","F","G","H","I","J","K","L","M",
           "N","O","P","Q","R","S","T","U","V","W","X","Y","Z">>
LOWER == <<"a","b","c","d","e","f","g","h","i","j","k","l","m",
           "n","o","p","q","r","s","t","u","v","w","x","y","z">>

\* str.lower() of one ASCII character
LowerChar(c) ==
    IF \E i \in 1..26 : UPPER[i] = c
    THEN LOWER[CHOOSE i \in 1..26 : UPPER[i] = c]
    ELSE c

\* str.lower()
Lower(s) == [i \in 1..Len(s) |-> LowerChar(s[i])]

\* the literal "_legends" of f"{keycap.name}_legends"
LegendsSuffix == <<"_","l","e","g","e","n","d","s">>

FILE_TYPE == "3mf"

GOTHAM == "Gotham Rounded:style=Bold"
AWESOME == "Font Awesome 6 Free:style=Solid"

-----------------------------------------------------------------------------
(* Keycap classes.  An object is a function from attribute names to values;*)
(* list-valued attributes that the classes update in place (fonts,         *)
(* font_sizes) hold a reference into the heap, so that the aliasing        *)
(* between the caller's keyword arguments and the object is kept.          *)
(* Attributes that only feed the geometry (trans, rotation, scale, stem_*, *)
(* key_length, ...) are not represented.                                   *)

ListAttrs == {"font_sizes", "fonts"}

Classes == {
    "ergodox_ft_base", "ergodox_ft_wpm", "ergodox_ft_icons",
    "ergodox_ft_icons_90top", "ergodox_ft_pgupdn", "ergodox_ft_front_icon",
    "ergodox_ft_text", "ergodox_ft_gem", "ergodox_ft_gem_front_icon",
    "ergodox_ft_multi", "ergodox_ft_tilde", "ergodox_ft_2", "ergodox_ft_3",
    "ergodox_ft_5", "ergodox_ft_6", "ergodox_ft_7", "ergodox_ft_8",
    "ergodox_ft_0", "ergodox_ft_slash", "ergodox_ft_1_5U",
    "ergodox_ft_1_5U_front_icon", "ergodox_ft_dash", "ergodox_ft_semicolon",
    "ergodox_ft_1_5UV", "ergodox_ft_lbracket", "ergodox_ft_rbracket",
    "ergodox_ft_2UV_icon", "ergodox_ft_enter", "ergodox_ft_space" }

\* class C(Parent): the direct base class
Parent(c) ==
    CASE c \in {"ergodox_ft_icons_90top", "ergodox_ft_pgupdn"} -> "ergodox_ft_icons"
      [] c = "ergodox_ft_gem_front_icon" -> "ergodox_ft_front_icon"
      [] c \in {"ergodox_ft_tilde", "ergodox_ft_2", "ergodox_ft_3", "ergodox_ft_5",
                "ergodox_ft_6", "ergodox_ft_7", "ergodox_ft_8", "ergodox_ft_0",
                "ergodox_ft_slash", "ergodox_ft_1_5U", "ergodox_ft_lbracket"}
            -> "ergodox_ft_multi"
      [] c \in {"ergodox_ft_1_5U_front_icon", "ergodox_ft_dash",
                "ergodox_ft_semicolon"} -> "ergodox_ft_1_5U"
      [] c = "ergodox_ft_rbracket" -> "ergodox_ft_lbracket"
      [] c \in {"ergodox_ft_enter", "ergodox_ft_space"} -> "ergodox_ft_2UV_icon"
      [] c = "ergodox_ft_base" -> "Keycap"
      [] OTHER -> "ergodox_ft_base"

\* The order in which the __init__ bodies run: every __init__ starts with
\* super().__init__(**kwargs), so the bodies run from Keycap down to the class.
RECURSIVE Chain(_)
Chain(c) == IF c = "Keycap" THEN <<"Keycap">> ELSE Append(Chain(Parent(c)), c)

\* Statements of an __init__ body (after the super().__init__ call):
\*   set a v      self.a = v                (v a scalar)
\*   new a v      self.a = [ ... ]          (a fresh list)
\*   item a i v   self.a[i] = v             (in place, i counted from 0)
\*   copy         kwargs_copy = deepcopy(kwargs)
\*   post         self.postinit(**kwargs)
\*   postcopy     self.postinit(**kwargs_copy)
SetS(a, v)     == [op |-> "set", a |-> a, v |-> v, i |-> 0]
NewS(a, v)     == [op |-> "new", a |-> a, v |-> v, i |-> 0]
ItemS(a, i, v) == [op |-> "item", a |-> a, v |-> v, i |-> i]
CopyS          == [op |-> "copy", a |-> "", v |-> 0, i |-> 0]
PostS          == [op |-> "post", a |-> "", v |-> 0, i |-> 0]
PostCopyS      == [op |-> "postcopy", a |-> "", v |-> 0, i |-> 0]

Body(c) ==
    CASE c = "ergodox_ft_base" ->
            << SetS("render", <<"keycap", "stem">>),
               SetS("file_type", FILE_TYPE),
               SetS("key_profile", "riskeycap"),
               SetS("polygon_layers", 4),
               NewS("fonts", <<GOTHAM, GOTHAM>>),
               NewS("font_sizes", <<45, 35>>),
               PostS >>
      [] c = "ergodox_ft_wpm" -> << ItemS("font_sizes", 1, 20) >>
      [] c = "ergodox_ft_icons" ->
            << NewS("fonts", <<AWESOME, AWESOME>>),
               NewS("font_sizes", <<50, 39>>) >>
      [] c = "ergodox_ft_icons_90top" -> << CopyS, PostCopyS >>
      [] c = "ergodox_ft_pgupdn" ->
            << CopyS, ItemS("font_sizes", 1, 37), PostCopyS >>
      [] c = "ergodox_ft_front_icon" ->
            << ItemS("fonts", 1, AWESOME), ItemS("font_sizes", 1, 39) >>
      [] c = "ergodox_ft_text" ->
            << CopyS, ItemS("font_sizes", 0, 40), PostCopyS >>
      [] c = "ergodox_ft_gem" -> << SetS("key_profile", "gem") >>
      [] c = "ergodox_ft_gem_front_icon" -> << SetS("key_profile", "gem") >>
      [] c = "ergodox_ft_multi" ->
            << NewS("fonts", <<GOTHAM, GOTHAM, GOTHAM, GOTHAM>>),
               NewS("font_sizes", <<45, 45, 45, 35>>),
               PostS >>
      [] c = "ergodox_ft_tilde" ->
            << ItemS("font_sizes", 0, 65), ItemS("font_sizes", 2, 55),
               ItemS("fonts", 3, AWESOME) >>
      [] c = "ergodox_ft_2" -> << >>
      [] c = "ergodox_ft_3" -> << ItemS("font_sizes", 2, 45) >>
      [] c = "ergodox_ft_5" -> << ItemS("font_sizes", 2, 40) >>
      [] c = "ergodox_ft_6" ->
            << ItemS("font_sizes", 2, 58), ItemS("fonts", 3, AWESOME) >>
      [] c = "ergodox_ft_7" -> << ItemS("font_sizes", 2, 45) >>
      [] c = "ergodox_ft_8" -> << ItemS("font_sizes", 2, 85) >>
      [] c = "ergodox_ft_0" -> << ItemS("font_sizes", 3, 66) >>
      [] c = "ergodox_ft_slash" ->
            << CopyS, ItemS("fonts", 3, AWESOME), ItemS("font_sizes", 3, 39),
               PostCopyS >>
      [] c = "ergodox_ft_1_5U" -> << CopyS, PostCopyS >>
      [] c = "ergodox_ft_1_5U_front_icon" ->
            << ItemS("fonts", 3, AWESOME), ItemS("font_sizes", 3, 39) >>
      [] c = "ergodox_ft_dash" -> << >>
      [] c = "ergodox_ft_semicolon" -> << >>
      [] c = "ergodox_ft_1_5UV" -> << CopyS, PostCopyS >>
      [] c = "ergodox_ft_lbracket" ->
            << CopyS, ItemS("fonts", 3, AWESOME), ItemS("font_sizes", 3, 39),
               PostCopyS >>
      [] c = "ergodox_ft_rbracket" -> << CopyS, PostCopyS >>
      [] c = "ergodox_ft_2UV_icon" ->
            << CopyS, NewS("fonts", <<AWESOME>>), NewS("font_sizes", <<50>>),
               PostCopyS >>
      [] c = "ergodox_ft_enter" -> << CopyS, PostCopyS >>
      [] c = "ergodox_ft_space" ->
            << CopyS, SetS("use_colorscad", FALSE), SetS("polygon_layers", 16),
               PostCopyS >>
      [] OTHER -> << >>

\* Keycap.__init__: every attribute starts at the library's default.
KeycapDefaults ==
    [ name |-> <<>>, legends |-> <<"">>, render |-> <<"keycap", "stem">>,
      file_type |-> "stl", key_profile |-> "default", polygon_layers |-> 0,
      fonts |-> 0, font_sizes |-> 0,
      use_colorscad |-> TRUE, stem_color |-> "default", output_path |-> "." ]

\* Keycap.postinit(**kw): every keyword becomes the attribute of that name
\* (a list is stored by reference, not copied).
PostInit(s, kw) ==
    [s EXCEPT !.self = [a \in DOMAIN s.self |->
                            IF a \in DOMAIN kw THEN kw[a] ELSE s.self[a]]]

\* deepcopy(kwargs): every list among the keyword arguments is copied to a
\* fresh heap cell, with the contents it has at that moment.
RECURSIVE CopyLists(_, _, _)
CopyLists(kw, heap, todo) ==
    IF todo = {} THEN [kw |-> kw, heap |-> heap]
    ELSE LET a == CHOOSE x \in todo : TRUE
             h == Append(heap, heap[kw[a]])
         IN  CopyLists([kw EXCEPT ![a] = Len(h)], h, todo \ {a})

DeepCopy(s) ==
    LET r == CopyLists(s.kw, s.heap, DOMAIN s.kw \cap ListAttrs)
    IN  [s EXCEPT !.copy = r.kw, !.heap = r.heap]

\* one statement of a body; an IndexError aborts the construction
Exec(s, stmt) ==
    IF s.err THEN s
    ELSE CASE stmt.op = "set" -> [s EXCEPT !.self[stmt.a] = stmt.v]
           [] stmt.op = "new" ->
                [s EXCEPT !.heap = Append(@, stmt.v),
                          !.self[stmt.a] = Len(s.heap) + 1]
           [] stmt.op = "item" ->
                IF stmt.i + 1 > Len(s.heap[s.self[stmt.a]])
                THEN [s EXCEPT !.err = TRUE]
                ELSE [s EXCEPT !.heap[s.self[stmt.a]][stmt.i + 1] = stmt.v]
           [] stmt.op = "copy" -> DeepCopy(s)
           [] stmt.op = "post" -> PostInit(s, s.kw)
           [] stmt.op = "postcopy" -> PostInit(s, s.copy)

RECURSIVE ExecAll(_, _)
ExecAll(s, stmts) ==
    IF stmts = <<>> THEN s ELSE ExecAll(Exec(s, Head(stmts)), Tail(stmts))

\* The body of class c's __init__ applied to the object built so far.
\* Keycap.__init__(**kwargs) sets the defaults and stores the keywords.
InitBody(c, s) ==
    IF c = "Keycap" THEN PostInit([s EXCEPT !.self = KeycapDefaults], s.kw)
    ELSE ExecAll(s, Body(c))

\* The caller's keyword arguments: lists are put on the heap, the keyword
\* holds the reference.
RECURSIVE PassLists(_, _, _)
PassLists(kw, heap, todo) ==
    IF todo = {} THEN [kw |-> kw, heap |-> heap]
    ELSE LET a == CHOOSE x \in todo : TRUE
             h == Append(heap, kw[a])
         IN  PassLists([kw EXCEPT ![a] = Len(h)], h, todo \ {a})

Call(kwvals) ==
    LET r == PassLists(kwvals, <<>>, DOMAIN kwvals \cap ListAttrs)
    IN  [self |-> KeycapDefaults, kw |-> r.kw, copy |-> r.kw,
         heap |-> r.heap, err |-> FALSE]

RECURSIVE RunChain(_, _)
RunChain(s, chain) ==
    IF chain = <<>> THEN s ELSE RunChain(InitBody(Head(chain), s), Tail(chain))

\* c(**kwvals)
Construct(c, kwvals) == RunChain(Call(kwvals), Chain(c))

\* value of attribute a of the object (lists dereferenced)
Attr(s, a) == IF a \in ListAttrs THEN s.heap[s.self[a]] ELSE s.self[a]

-----------------------------------------------------------------------------
(* The catalog.  KEYCAPS holds one object per key; the model keeps these   *)
(* entries of it, in the order of the source, and the driver iterates over *)
(* the first NumKeycaps of them.                                           *)

l_Q     == <<"l","_","Q">>
l_space == <<"l","_","s","p","a","c","e">>
r_alt   == <<"r","_","a","l","t">>

CatalogEntries ==
    << Construct("ergodox_ft_base", [name |-> l_Q, legends |-> <<"Q", "F6">>]),
       Construct("ergodox_ft_space", [name |-> l_space]),
       Construct("ergodox_ft_text",
                 [name |-> r_alt, legends |-> <<"AltGr">>, font_sizes |-> <<30>>]) >>

\* the objects as the driver sees them (list attributes by value)
KEYCAPS ==
    [k \in 1..NumKeycaps |->
        [a \in DOMAIN CatalogEntries[k].self |-> Attr(CatalogEntries[k], a)]]

-----------------------------------------------------------------------------
(* __main__: argument parsing and the loops that fill COMMANDS *)

\* a global name that has not been assigned: lines 55-56, where MAX_RUNNERS and
\* SEM would be set at import, are commented out
Undefined == [defined |-> FALSE, value |-> 0, waiters |-> <<>>]

DefaultJobs == 8

\* the assignment SEM = ... left out, as at lines 55-56
SemaphoreUnassigned(value) == Undefined

\* asyncio.Semaphore(value)
Semaphore(value) == [defined |-> TRUE, value |-> value, waiters |-> <<>>]

\* f"{args.out}/{keycap.name}.{keycap.file_type}"
Path(k) == [name |-> k["name"], ext |-> k["file_type"]]

\* the existence test left out
ExistsNever(path) == FALSE

\* os.path.exists(path)
Exists(path) == path \in FS

\* the comparison without .lower()
NameMatchesExact(k, name) == k["name"] = name

\* keycap.name.lower() == name.lower()
NameMatches(k, name) == Lower(k["name"]) = Lower(name)

\* str(keycap): the render command, which is made from the object's
\* attributes at that moment.  Two fields are history only: idx, the catalog
\* entry the command came from, and part, whether the keycap code or the
\* legends code of the driver queued it.
Str(k, idx, part) == [kc |-> k, idx |-> idx, part |-> part]

Line(msg, k, idx) == [msg |-> msg, file |-> Path(k), idx |-> idx]

\* if args.skip_colorscad: ... / if args.transparent: ...
ApplyFlags(k) ==
    LET k1 == IF args.skip_colorscad THEN [k EXCEPT !["use_colorscad"] = FALSE] ELSE k
    IN  IF args.transparent THEN [k1 EXCEPT !["stem_color"] = "#505050"] ELSE k1

\* the --force test in front of the named branch's legends
NamedLegendExists(k) == Exists(Path(k))

\* One pass of the body of `for keycap in KEYCAPS` in the named branch, for
\* a keycap whose name matches: the resulting keycap, commands and output.
NamedBody(k0, idx, cmds0, out0) ==
    LET k1     == [k0 EXCEPT !["output_path"] = "out"]
        exists == (~args.force) /\ Exists(Path(k1))
        out1   == IF exists THEN Append(out0, Line("skipping", k1, idx)) ELSE out0
        k2     == ApplyFlags(k1)
        cmds1  == IF exists THEN cmds0 ELSE Append(cmds0, Str(k2, idx, "keycap"))
        out2   == IF exists THEN out1 ELSE Append(out1, Line("Rendering", k2, idx))
        k3     == [k2 EXCEPT !["name"] = k2["name"] \o LegendsSuffix,
                             !["file_type"] = "stl"]
    IN  IF ~args.legends
        THEN [kc |-> k2, cmds |-> cmds1, out |-> out2]
        ELSE IF NamedLegendExists(k3)
             THEN [kc |-> k3, cmds |-> cmds1,
                   out |-> Append(out2, Line("skipping", k3, idx))]
             ELSE [kc |-> k3, cmds |-> Append(cmds1, Str(k3, idx, "legends")),
                   out |-> Append(out2, Line("Rendering", k3, idx))]

\* body of the first loop of the full branch
FullKeycapBody(k0, idx, cmds0, out0) ==
    LET k1 == [k0 EXCEPT !["output_path"] = "out"]
        k2 == ApplyFlags(k1)
    IN  IF (~args.force) /\ Exists(Path(k1))
        THEN [kc |-> k1, cmds |-> cmds0, out |-> Append(out0, Line("skipping", k1, idx))]
        ELSE [kc |-> k2, cmds |-> Append(cmds0, Str(k2, idx, "keycap")),
              out |-> Append(out0, Line("Rendering", k2, idx))]

\* body of the second loop of the full branch
FullLegendBody(k0, idx, cmds0, out0) ==
    LET k1 == [k0 EXCEPT !["name"] = k0["name"] \o LegendsSuffix,
                         !["output_path"] = "out",
                         !["render"] = <<"legends">>,
                         !["file_type"] = "stl"]
        k2 == ApplyFlags(k1)
    IN  IF k0["legends"] = <<"">>
        THEN [kc |-> k0, cmds |-> cmds0, out |-> out0]
        ELSE IF (~args.force) /\ Exists(Path(k1))
             THEN [kc |-> k1, cmds |-> cmds0,
                   out |-> Append(out0, Line("skipping", k1, idx))]
             ELSE [kc |-> k2, cmds |-> Append(cmds0, Str(k2, idx, "legends")),
                   out |-> Append(out0, Line("Rendering", k2, idx))]

\* args = parser.parse_args(); SEM = asyncio.Semaphore(args.jobs); the early
\* exits; the choice of the branch.  Semaphore raises ValueError for a
\* negative value.
ParseArgs ==
    /\ pc = "args"
    /\ IF args.jobs < 0
       THEN /\ pc' = "crash"
            /\ UNCHANGED SEM
       ELSE /\ SEM' = Semaphore(args.jobs)
            /\ pc' = IF argv1 \/ args.keycaps THEN "exit"
                     ELSE IF args.names # <<>> THEN "named" ELSE "full"
    /\ ni' = 1 /\ ki' = 1 /\ matched' = FALSE
    /\ UNCHANGED <<args, argv1, FS, keycaps, COMMANDS, stdout>>
    /\ UNCHANGED <<ready, ntodo, stopping, tpc, mpc, doneQ, consumed, execCount, printed>>
    /\ UNCHANGED ctorVars

\* one iteration of `for name in args.names: for keycap in KEYCAPS:`
NamedIter ==
    /\ pc = "named"
    /\ LET hit == NameMatches(keycaps[ki], args.names[ni])
           r   == NamedBody(keycaps[ki], ki, COMMANDS, stdout)
       IN  /\ keycaps' = IF hit THEN [keycaps EXCEPT ![ki] = r.kc] ELSE keycaps
           /\ COMMANDS' = IF hit THEN r.cmds ELSE COMMANDS
           /\ stdout' = IF hit THEN r.out ELSE stdout
           /\ matched' = (matched \/ hit)
    /\ IF ki < Len(keycaps)
       THEN ki' = ki + 1 /\ UNCHANGED <<ni, pc>>
       ELSE /\ ki' = 1
            /\ ni' = ni + 1
            /\ pc' = IF ni < Len(args.names) THEN "named" ELSE "built"
    /\ UNCHANGED <<args, argv1, FS>>
    /\ UNCHANGED runVars
    /\ UNCHANGED ctorVars

\* one iteration of the first `for keycap in KEYCAPS` of the full branch
FullKeycapIter ==
    /\ pc = "full"
    /\ LET r == FullKeycapBody(keycaps[ki], ki, COMMANDS, stdout)
       IN  /\ keycaps' = [keycaps EXCEPT ![ki] = r.kc]
           /\ COMMANDS' = r.cmds
           /\ stdout' = r.out
    /\ IF ki < Len(keycaps)
       THEN ki' = ki + 1 /\ UNCHANGED pc
       ELSE ki' = 1 /\ pc' = IF args.legends THEN "legends" ELSE "built"
    /\ UNCHANGED <<args, argv1, FS, ni, matched>>
    /\ UNCHANGED runVars
    /\ UNCHANGED ctorVars

\* one iteration of `for legend in KEYCAPS`
FullLegendIter ==
    /\ pc = "legends"
    /\ LET r == FullLegendBody(keycaps[ki], ki, COMMANDS, stdout)
       IN  /\ keycaps' = [keycaps EXCEPT ![ki] = r.kc]
           /\ COMMANDS' = r.cmds
           /\ stdout' = r.out
    /\ IF ki < Len(keycaps)
       THEN ki' = ki + 1 /\ UNCHANGED pc
       ELSE ki' = 1 /\ pc' = "built"
    /\ UNCHANGED <<args, argv1, FS, ni, matched>>
    /\ UNCHANGED runVars
    /\ UNCHANGED ctorVars

-----------------------------------------------------------------------------
(* Initial states *)

\* a list override of every length up to the bound
ListsOf(v) == { [i \in 1..n |-> v] : n \in 1..MaxListLen }

EmptyKw == [a \in {} |-> 0]

\* the keyword overrides tried on every class
KwChoices ==
    { fs @@ fo @@ kp :
        fs \in {EmptyKw} \cup { [font_sizes |-> l] : l \in ListsOf(30) },
        fo \in {EmptyKw, [fonts |-> [i \in 1..MaxListLen |-> "Arial"]]},
        kp \in {EmptyKw, [key_profile |-> "dsa"], [polygon_layers |-> 8]} }

CtorIdle ==
    /\ cls = "ergodox_ft_base"
    /\ given = EmptyKw
    /\ level = 0
    /\ st = Call(EmptyKw)

DefaultArgs ==
    [ jobs |-> DefaultJobs, force |-> FALSE, skip_colorscad |-> FALSE,
      transparent |-> FALSE, legends |-> FALSE, keycaps |-> FALSE, names |-> <<>> ]

MainStart ==
    /\ pc = "args"
    /\ ni = 1 /\ ki = 1 /\ matched = FALSE
    /\ keycaps = KEYCAPS
    /\ COMMANDS = <<>>
    /\ stdout = <<>>

RunIdle ==
    /\ SEM = Undefined
    /\ ready = <<>> /\ ntodo = 0 /\ stopping = FALSE
    /\ tpc = <<>> /\ mpc = "none"
    /\ doneQ = <<>> /\ consumed = 0
    /\ execCount = <<>> /\ printed = <<>>

\* names that can be typed on the command line
NamePool ==
    { <<"l","_","q">>, l_space, l_Q \o LegendsSuffix }

NameSeqs == UNION { [1..n -> NamePool] : n \in 0..MaxNames }

\* the files the driver can ask for
Files ==
    UNION { { [name |-> KEYCAPS[k]["name"], ext |-> FILE_TYPE],
              [name |-> KEYCAPS[k]["name"] \o LegendsSuffix, ext |-> "stl"] }
            : k \in 1..NumKeycaps }

\* every class called with every choice of overrides
InitCtor ==
    /\ cls \in Classes
    /\ given \in KwChoices
    /\ level = 0
    /\ st = Call(given)
    /\ args = DefaultArgs /\ argv1 = TRUE /\ FS = {}
    /\ MainStart
    /\ RunIdle

\* the driver with every combination of options, names and existing files
InitMain ==
    /\ CtorIdle
    /\ \E f \in BOOLEAN, s \in BOOLEAN, t \in BOOLEAN, l \in BOOLEAN,
          k \in BOOLEAN, n \in NameSeqs :
          /\ k => (~f /\ ~s /\ ~t /\ ~l /\ n = <<>>)
          /\ s = t
          /\ args = [ jobs |-> DefaultJobs, force |-> f, skip_colorscad |-> s,
                      transparent |-> t, legends |-> l, keycaps |-> k, names |-> n ]
    /\ argv1 \in BOOLEAN
    /\ argv1 => args = DefaultArgs
    /\ FS \in SUBSET Files
    /\ MainStart
    /\ RunIdle

-----------------------------------------------------------------------------
(* Construction of one object, one __init__ body at a time *)

CtorStep ==
    /\ level < Len(Chain(cls))
    /\ ~st.err
    /\ st' = InitBody(Chain(cls)[level + 1], st)
    /\ level' = level + 1
    /\ UNCHANGED <<cls, given>>
    /\ UNCHANGED mainVars
    /\ UNCHANGED runVars

Constructed == level = Len(Chain(cls)) /\ ~st.err

-----------------------------------------------------------------------------
(* The asyncio runner.  The event loop is single threaded: it runs the     *)
(* handles of loop._ready in FIFO order, one pass (_run_once) at a time,   *)
(* and looks at its stop flag between passes.  Shell commands run in the   *)
(* executor's threads and report back with call_soon_threadsafe.           *)

Handle(k, t) == [k |-> k, t |-> t]

Tasks == 1..Len(COMMANDS)

\* states of a run_command_on_loop task in which it holds SEM
Holding == {"executing", "exec_done", "exec_set", "sleeping", "sleep_fired", "sleep_set"}

Holders == { t \in DOMAIN tpc : tpc[t] \in Holding }

\* the test off by one
LockedOffByOne(sem) == sem.value < 0

\* Semaphore.locked(): acquire() has to wait
Locked(sem) == sem.value <= 0

\* a release that wakes the waiter but does not give the slot back
ReleaseNoCount(sem) ==
    [defined |-> sem.defined,
     value |-> sem.value,
     waiters |-> IF sem.waiters = <<>> THEN <<>> ELSE Tail(sem.waiters)]

\* Semaphore.release(): the counter goes up by one and the first waiter is
\* taken off the queue to be woken
Release(sem) ==
    [defined |-> sem.defined,
     value |-> sem.value + 1,
     waiters |-> IF sem.waiters = <<>> THEN <<>> ELSE Tail(sem.waiters)]

\* all orders in which set(fs) can be iterated
Orders(n) == { o \in [1..n -> 1..n] : \A i, j \in 1..n : o[i] = o[j] => i = j }

\* `for f in asyncio.as_completed(fs)` meets the iteration order of set(fs)
SetOrders(n) == Orders(n)

\* loop.run_until_complete(run_all_commands()): the coroutine is wrapped in a
\* task, whose first step is scheduled, and the loop starts.
StartLoop ==
    /\ pc = "built"
    /\ Len(COMMANDS) <= MaxRun
    /\ pc' = "loop"
    /\ mpc' = "scheduled"
    /\ ready' = <<Handle("main", 0)>>
    /\ ntodo' = 0
    /\ stopping' = FALSE
    /\ tpc' = [t \in Tasks |-> "coro"]
    /\ execCount' = [t \in Tasks |-> 0]
    /\ printed' = [t \in Tasks |-> 0]
    /\ UNCHANGED <<SEM, doneQ, consumed>>
    /\ UNCHANGED <<args, argv1, FS, ni, ki, matched, keycaps, COMMANDS, stdout>>
    /\ UNCHANGED ctorVars

\* _run_once: the handles that are ready now make up the next pass
BeginPass ==
    /\ pc = "loop"
    /\ ntodo = 0
    /\ ~stopping
    /\ ready # <<>>
    /\ ntodo' = Len(ready)
    /\ UNCHANGED <<SEM, ready, stopping, tpc, mpc, doneQ, consumed, execCount, printed>>
    /\ UNCHANGED mainVars
    /\ UNCHANGED ctorVars

\* run_forever leaves after the pass in which stop() was called; whatever is
\* still in loop._ready is never run.
LoopExit ==
    /\ pc = "loop"
    /\ ntodo = 0
    /\ stopping
    /\ pc' = "end"
    /\ UNCHANGED <<args, argv1, FS, ni, ki, matched, keycaps, COMMANDS, stdout>>
    /\ UNCHANGED runVars
    /\ UNCHANGED ctorVars

\* a worker thread of the executor runs run_command(command) to its end and
\* hands the result to the loop
ExecDone(t) ==
    /\ pc = "loop"
    /\ tpc[t] = "executing"
    /\ execCount' = [execCount EXCEPT ![t] = @ + 1]
    /\ tpc' = [tpc EXCEPT ![t] = "exec_done"]
    /\ ready' = Append(ready, Handle("setfut", t))
    /\ UNCHANGED <<SEM, ntodo, stopping, mpc, doneQ, consumed, printed>>
    /\ UNCHANGED mainVars
    /\ UNCHANGED ctorVars

\* the timer of asyncio.sleep(1) is due when a pass begins
TimerFire(t) ==
    /\ pc = "loop"
    /\ ntodo = 0
    /\ ~stopping
    /\ tpc[t] = "sleeping"
    /\ tpc' = [tpc EXCEPT ![t] = "sleep_fired"]
    /\ ready' = Append(ready, Handle("setfut", t))
    /\ UNCHANGED <<SEM, ntodo, stopping, mpc, doneQ, consumed, execCount, printed>>
    /\ UNCHANGED mainVars
    /\ UNCHANGED ctorVars

Thread == \E t \in DOMAIN tpc : ExecDone(t)

Timer == \E t \in DOMAIN tpc : TimerFire(t)

\* the handles left once the head has been taken
Rest == Tail(ready)

\* first step of run_all_commands: as_completed wraps every coroutine of
\* set(fs) in a task, in the set's order, and the task waits on the queue
\* (with no command at all it returns at once).
MainFirst ==
    /\ mpc = "scheduled"
    /\ \E o \in SetOrders(Len(COMMANDS)) :
          ready' = Rest \o [i \in 1..Len(COMMANDS) |-> Handle("step", o[i])]
                        \o (IF COMMANDS = <<>> THEN <<Handle("stopcb", 0)>> ELSE <<>>)
    /\ tpc' = [t \in Tasks |-> "created"]
    /\ mpc' = IF COMMANDS = <<>> THEN "finished" ELSE "waiting"
    /\ UNCHANGED <<SEM, stopping, doneQ, consumed, execCount, printed>>

\* `result = yield from f; ensure_future(process_result(result))` for every
\* finished task that is in the queue: q the queue, n the results taken so
\* far, r the handles scheduled so far.  A task that failed re-raises in
\* run_all_commands.
RECURSIVE Drain(_, _, _)
Drain(q, n, r) ==
    IF n = Len(COMMANDS)
    THEN [q |-> q, n |-> n, r |-> Append(r, Handle("stopcb", 0)), m |-> "finished"]
    ELSE IF q = <<>>
    THEN [q |-> q, n |-> n, r |-> r, m |-> "waiting"]
    ELSE IF tpc[Head(q)] = "failed"
    THEN [q |-> Tail(q), n |-> n, r |-> Append(r, Handle("stopcb", 0)), m |-> "failed"]
    ELSE Drain(Tail(q), n + 1, Append(r, Handle("pstep", Head(q))))

\* run_all_commands woken up by the queue
MainWake ==
    /\ mpc = "woken"
    /\ LET d == Drain(doneQ, consumed, Rest)
       IN  /\ doneQ' = d.q
           /\ consumed' = d.n
           /\ ready' = d.r
           /\ mpc' = d.m
    /\ UNCHANGED <<SEM, stopping, tpc, execCount, printed>>

\* `async with SEM`: SEM.acquire().  With SEM undefined the task dies of a
\* NameError; with the semaphore locked it queues up; else it takes a slot
\* and hands the command to the executor.
TaskAcquire(t) ==
    /\ tpc[t] \in {"created", "woken"}
    /\ IF ~SEM.defined
       THEN /\ tpc' = [tpc EXCEPT ![t] = "failed"]
            /\ ready' = Append(Rest, Handle("oncompletion", t))
            /\ UNCHANGED SEM
       ELSE IF Locked(SEM)
       THEN /\ SEM' = [SEM EXCEPT !.waiters = Append(@, t)]
            /\ tpc' = [tpc EXCEPT ![t] = "waiting"]
            /\ ready' = Rest
       ELSE /\ SEM' = [SEM EXCEPT !.value = @ - 1]
            /\ tpc' = [tpc EXCEPT ![t] = "executing"]
            /\ ready' = Rest
    /\ UNCHANGED <<stopping, mpc, doneQ, consumed, execCount, printed>>

\* output = await loop.run_in_executor(...) has its result: on to
\* await asyncio.sleep(1)
TaskSleep(t) ==
    /\ tpc[t] = "exec_set"
    /\ tpc' = [tpc EXCEPT ![t] = "sleeping"]
    /\ ready' = Rest
    /\ UNCHANGED <<SEM, stopping, mpc, doneQ, consumed, execCount, printed>>

\* return output: leaving `async with` releases SEM, which wakes the first
\* waiter; the finished task then schedules as_completed's callback.
TaskReturn(t) ==
    /\ tpc[t] = "sleep_set"
    /\ SEM' = Release(SEM)
    /\ tpc' = IF SEM.waiters = <<>>
              THEN [tpc EXCEPT ![t] = "finished"]
              ELSE [tpc EXCEPT ![t] = "finished", ![Head(SEM.waiters)] = "woken"]
    /\ ready' = Rest
                \o (IF SEM.waiters = <<>> THEN <<>>
                    ELSE <<Handle("step", Head(SEM.waiters))>>)
                \o <<Handle("oncompletion", t)>>
    /\ UNCHANGED <<stopping, mpc, doneQ, consumed, execCount, printed>>

\* the future a task awaits gets its result, which schedules the task
SetFuture(t) ==
    /\ tpc[t] \in {"exec_done", "sleep_fired"}
    /\ tpc' = [tpc EXCEPT ![t] = IF tpc[t] = "exec_done" THEN "exec_set" ELSE "sleep_set"]
    /\ ready' = Append(Rest, Handle("step", t))
    /\ UNCHANGED <<SEM, stopping, mpc, doneQ, consumed, execCount, printed>>

\* as_completed's _on_completion: the task goes into the queue, and a
\* waiting run_all_commands is woken
OnCompletion(t) ==
    /\ doneQ' = Append(doneQ, t)
    /\ IF mpc = "waiting"
       THEN mpc' = "woken" /\ ready' = Append(Rest, Handle("main", 0))
       ELSE UNCHANGED mpc /\ ready' = Rest
    /\ UNCHANGED <<SEM, stopping, tpc, consumed, execCount, printed>>

\* process_result(result): print(result)
ProcessResult(t) ==
    /\ printed' = [printed EXCEPT ![t] = @ + 1]
    /\ ready' = Rest
    /\ UNCHANGED <<SEM, stopping, tpc, mpc, doneQ, consumed, execCount>>

\* the done callback run_until_complete put on the main task: loop.stop()
StopCallback ==
    /\ stopping' = TRUE
    /\ ready' = Rest
    /\ UNCHANGED <<SEM, tpc, mpc, doneQ, consumed, execCount, printed>>

\* the loop runs the first handle of the pass
RunHandle ==
    /\ pc = "loop"
    /\ ntodo > 0
    /\ ntodo' = ntodo - 1
    /\ LET h == Head(ready)
       IN  CASE h.k = "main" -> MainFirst \/ MainWake
             [] h.k = "step" -> TaskAcquire(h.t) \/ TaskSleep(h.t) \/ TaskReturn(h.t)
             [] h.k = "setfut" -> SetFuture(h.t)
             [] h.k = "oncompletion" -> OnCompletion(h.t)
             [] h.k = "pstep" -> ProcessResult(h.t)
             [] h.k = "stopcb" -> StopCallback
    /\ UNCHANGED mainVars
    /\ UNCHANGED ctorVars

\* the whole program run with a few command lines
InitRun ==
    /\ CtorIdle
    /\ \E j \in (-1)..MaxJobs, l \in BOOLEAN, n \in NameSeqs :
          /\ Len(n) <= 1
          /\ args = [ jobs |-> j, force |-> TRUE, skip_colorscad |-> FALSE,
                      transparent |-> FALSE, legends |-> l, keycaps |-> FALSE,
                      names |-> n ]
    /\ argv1 = FALSE
    /\ FS = {}
    /\ MainStart
    /\ RunIdle

Next ==
    \/ ParseArgs \/ NamedIter \/ FullKeycapIter \/ FullLegendIter
    \/ StartLoop \/ BeginPass \/ RunHandle \/ LoopExit
    \/ Thread \/ Timer

\* The loop keeps running its handles, every shell command ends and every
\* timer fires.
Spec == InitRun /\ [][Next]_vars /\ WF_vars(Next)

NextCtor == CtorStep
SpecCtor == InitCtor /\ [][NextCtor]_vars

NextMain == ParseArgs \/ NamedIter \/ FullKeycapIter \/ FullLegendIter
SpecMain == InitMain /\ [][NextMain]_vars

-----------------------------------------------------------------------------
(* Properties *)

IsLegend(t) == COMMANDS[t].part = "legends"

\* the task has entered `async with SEM` and got its slot
Started(t) == tpc[t] \in Holding \cup {"finished"}

RenderingLines == SelectSeq(stdout, LAMBDA e : e.msg = "Rendering")

\* the catalog entry was selected: the driver reported on its keycap file
Selected(k) == \E i \in 1..Len(stdout) : stdout[i].idx = k

Queued(file) == \E i \in 1..Len(COMMANDS) : Path(COMMANDS[i].kc) = file

\* C1: while the loop runs the queued commands, the number of tasks that
\* hold SEM never exceeds --jobs.
C1_JobsCap ==
    pc = "loop" => Cardinality(Holders) <= args.jobs

C1_Witness ==
    /\ pc = "loop"
    /\ args.jobs = MaxJobs
    /\ Cardinality(Holders) = args.jobs
    /\ SEM.waiters # <<>>

\* C2: with a positive --jobs the loop ends, and when it has ended every
\* command was run exactly once and its output printed exactly once.
C2_Completes ==
    /\ (pc = "loop" /\ args.jobs > 0) ~> (pc = "end")
    /\ [](pc = "end" => \A t \in Tasks : execCount[t] = 1 /\ printed[t] = 1)

C2_Witness ==
    /\ pc = "end"
    /\ Len(COMMANDS) = 3
    /\ args.jobs = 1
    /\ \A t \in Tasks : execCount[t] = 1 /\ printed[t] = 1

\* C3: with --force every selected keycap and every selected legend is
\* queued, so the driver never reports an output as existing and skipped.
C3_Claim ==
    args.force =>
        /\ \A i \in 1..Len(stdout) : stdout[i].msg = "Rendering"
        /\ Len(COMMANDS) = Len(stdout)

\* C4: without --force an output the driver considers is queued exactly when
\* its file is missing: every line it prints is "Rendering" iff the file is
\* not there, the commands are the Rendering lines in order, and at the end
\* of the full branch a catalog file is queued iff it is missing.
C4_QueuedIffMissing ==
    ~args.force =>
        /\ \A i \in 1..Len(stdout) :
              (stdout[i].msg = "Rendering") <=> (stdout[i].file \notin FS)
        /\ Len(COMMANDS) = Len(RenderingLines)
        /\ \A i \in 1..Len(COMMANDS) :
              /\ Path(COMMANDS[i].kc) = RenderingLines[i].file
              /\ Path(COMMANDS[i].kc) \notin FS
        /\ (pc = "built" /\ args.names = <<>> /\ ~argv1 /\ ~args.keycaps) =>
              \A k \in 1..NumKeycaps :
                 /\ Queued([name |-> KEYCAPS[k]["name"], ext |-> FILE_TYPE])
                       <=> [name |-> KEYCAPS[k]["name"], ext |-> FILE_TYPE] \notin FS
                 /\ (args.legends /\ KEYCAPS[k]["legends"] # <<"">>) =>
                       (Queued([name |-> KEYCAPS[k]["name"] \o LegendsSuffix, ext |-> "stl"])
                          <=> [name |-> KEYCAPS[k]["name"] \o LegendsSuffix, ext |-> "stl"]
                                 \notin FS)

C4_Witness ==
    /\ pc = "built"
    /\ ~args.force
    /\ args.legends
    /\ \E i \in 1..Len(stdout) : stdout[i].msg = "skipping"
    /\ \E i \in 1..Len(COMMANDS) : COMMANDS[i].part = "legends"

\* C5: every command queued by the legends code is built from a keycap
\* whose render list is ["legends"], whose file_type is "stl" and whose name
\* is the catalog name followed by "_legends".
C5_Claim ==
    \A i \in 1..Len(COMMANDS) :
        COMMANDS[i].part = "legends" =>
            /\ COMMANDS[i].kc["render"] = <<"legends">>
            /\ COMMANDS[i].kc["file_type"] = "stl"
            /\ COMMANDS[i].kc["name"] = KEYCAPS[COMMANDS[i].idx]["name"] \o LegendsSuffix

\* C6: in the full branch the keycap commands come before the legend
\* commands in COMMANDS, and no legend command starts before every keycap
\* command has started.
C6_Claim ==
    args.names = <<>> =>
        /\ \A i, j \in 1..Len(COMMANDS) :
              (IsLegend(i) /\ ~IsLegend(j)) => j < i
        /\ \A i, j \in DOMAIN tpc :
              (IsLegend(i) /\ ~IsLegend(j) /\ Started(i)) => Started(j)

\* C7: in the named branch every command comes from a catalog entry whose
\* name equals a requested name up to case, and every requested name that
\* equals a catalog name up to case selects that entry.
C7_OnlyNamed ==
    args.names # <<>> =>
        /\ \A i \in 1..Len(COMMANDS) :
              \E n \in 1..Len(args.names) :
                 Lower(KEYCAPS[COMMANDS[i].idx]["name"]) = Lower(args.names[n])
        /\ pc = "built" =>
              \A n \in 1..Len(args.names), k \in 1..NumKeycaps :
                 Lower(KEYCAPS[k]["name"]) = Lower(args.names[n]) => Selected(k)

C7_Witness ==
    /\ pc = "built"
    /\ \E n \in 1..Len(args.names) : args.names[n] = <<"l","_","q">>
    /\ \E i \in 1..Len(COMMANDS) : COMMANDS[i].kc["name"] = l_Q
    /\ ~Selected(2)

\* C8 as stated: where a task enters `async with SEM`, SEM is undefined.
C8_Claim ==
    \A t \in DOMAIN tpc : tpc[t] \in {"created", "woken"} => ~SEM.defined

\* C8 amended: SEM is unbound when the script starts, and it is bound by
\* __main__ before any task enters `async with SEM`.
C8_SemAssigned ==
    /\ pc = "args" => ~SEM.defined
    /\ \A t \in DOMAIN tpc : tpc[t] # "coro" => SEM.defined

C8_Witness ==
    /\ SEM.defined
    /\ \E t \in DOMAIN tpc : tpc[t] = "executing"
    /\ \E t \in DOMAIN tpc : tpc[t] = "waiting"

\* C9: on a constructed object every attribute passed as a keyword override
\* has the value that was passed.
C9_Claim ==
    Constructed => \A a \in DOMAIN given : Attr(st, a) = given[a]

====
